---- MODULE Spec2Model ----
(***************************************************************************)
(* A model of the jukebox server's playback core: PygamePlayer             *)
(* (src/src/player.py), the audio output it drives (pygame.mixer.music),   *)
(* the background preload thread, the startup state restore and the        *)
(* end-of-track watcher, the signal handler and the background loops       *)
(* (src/app.py), the WebSocket command handler                             *)
(* (src/src/websocket_handler.py), the catalog rescan                      *)
(* (src/src/downloader.py) and the HTTP routes that trigger it             *)
(* (src/src/routes.py).                                                    *)
(*                                                                         *)
(* A track is identified by its file: track t is the t-th entry of the     *)
(* audio folder in directory order.  Optional values (Python's None) are   *)
(* sequences of length at most one.  Python list indices may be negative.  *)
(***************************************************************************)
EXTENDS Integers, Sequences, FiniteSets, TLC

\* ------------------------------------------------------------------ bounds
NumTracks == 3
MaxPreloadThreads == 1
MaxNextCalls == 2
ShuffleTracks == 6
WakeStep == 90
MaxTime == 720

\* ------------------------------------------------------- program constants
max_history == 10
max_cache_size == 5
ShuffleNextWindow == 5
ShufflePreloadWindow == 3
\* pygame_event_handler's idle window, in seconds
idle_timeout == 180
\* SDL_mixer's MIX_MAX_VOLUME, the value of volume 1.0
MixMaxVolume == 128
\* the volume __main__ sets when the saved state has none: 0.5
DefaultVolume == 64

Tracks == 1..NumTracks
None == <<>>
Some(x) == <<x>>

VARIABLES
    track_list,      \* PygamePlayer.track_list: the catalog, a list of tracks
    current_index,   \* PygamePlayer.current_index
    paused,          \* PygamePlayer.paused
    shuffle_on,      \* PygamePlayer.shuffle_on
    last_played,     \* PygamePlayer.last_played
    cache,           \* PygamePlayer._cache: paths in insertion order
    current_file,    \* PygamePlayer._current_file
    current_mmap,    \* PygamePlayer._current_mmap
    next_file,       \* PygamePlayer._next_file
    next_mmap,       \* PygamePlayer._next_mmap
    next_index,      \* PygamePlayer._next_index
    music,           \* the track loaded in pygame.mixer.music, or None
    mixer,           \* pygame.mixer.music: "stopped", "playing" or "paused"
    volume,          \* pygame.mixer.music's volume, in steps of 1/128
    disk,            \* the audio files present in the audio folder
    preload_threads, \* preload threads started and not yet run
    phase,           \* "startup", "running", "crashed" or "shutdown"
    th,              \* each actor's position and locals in a call in progress
    calls,           \* the number of next() calls begun step by step
    seen,            \* the (current_index, paused, shuffle) values that held
                     \* at some instant with no mutating call in progress
    picks,           \* the indices chosen by the latest next() calls of a run
                     \* of calls made with shuffle on, oldest first
    ended,           \* the track in the output played to its end and no
                     \* playback has started since
    clients,         \* websocket_handler._connected_clients
    state_changed,   \* websocket_handler._state_changed
    state_file,      \* the snapshot last written by save_state, or None
    owed,            \* the connected clients that have not been sent the
                     \* snapshot of the watcher's latest advance
    now,             \* time.time(), in seconds since the server started
    last_websocket_activity, \* websocket_handler._last_websocket_activity
    last_busy,       \* the latest time at which the output was playing
    last_fire,       \* the time of the watcher's latest idle cleanup, or None
    shutdown_event,  \* app.shutdown_event is set
    running,         \* Watchdog.running and MemoryMonitor.running
    cleanups,        \* the calls of PygamePlayer.cleanup() made by this process
    main,            \* the main thread: "serving", "unwinding", "atexit" or
                     \* "exited"
    loop,            \* each background loop: "sleep", "turn" or "exited"
    orphans          \* the handles a slot lost by assignment while they were
                     \* open

pvars == <<track_list, current_index, paused, shuffle_on, last_played, cache,
           current_file, current_mmap, next_file, next_mmap, next_index,
           music, mixer, volume, disk, preload_threads>>
tvars == <<now, last_websocket_activity, last_busy, last_fire>>
xvars == <<shutdown_event, running, cleanups, main, loop, orphans>>
hvars == <<picks, ended, clients, state_changed, state_file, owed, tvars,
           xvars>>
cvars == <<th, calls, seen, hvars>>
vars == <<pvars, phase, cvars>>

\* ------------------------------------------------------------ Python lists
PyValid(list, i) == -Len(list) <= i /\ i < Len(list)
PyGet(list, i) == IF i >= 0 THEN list[i + 1] ELSE list[Len(list) + i + 1]
RemoveAt(list, k) == SubSeq(list, 1, k - 1) \o SubSeq(list, k + 1, Len(list))
Range(list) == {list[k] : k \in 1..Len(list)}
Min(a, b) == IF a < b THEN a ELSE b
Max(a, b) == IF a > b THEN a ELSE b
\* list[-n:] for n >= 0 (list[-0:] is the whole list)
Tail_n(list, n) ==
    IF n = 0 \/ n >= Len(list) THEN list
    ELSE SubSeq(list, Len(list) - n + 1, Len(list))

\* ------------------------------------------- the player state as one record
S == [track_list |-> track_list, current_index |-> current_index,
      paused |-> paused, shuffle_on |-> shuffle_on,
      last_played |-> last_played, cache |-> cache,
      current_file |-> current_file, current_mmap |-> current_mmap,
      next_file |-> next_file, next_mmap |-> next_mmap,
      next_index |-> next_index, music |-> music, mixer |-> mixer,
      volume |-> volume, disk |-> disk,
      preload_threads |-> preload_threads, exc |-> "none"]

Raise(s, e) == [s EXCEPT !.exc = e]

\* ------------------------------------------------------ pygame.mixer.music
get_busy(s) == s.mixer = "playing"
mixer_stop(s) == [s EXCEPT !.mixer = "stopped"]
mixer_pause(s) == IF s.mixer = "playing" THEN [s EXCEPT !.mixer = "paused"] ELSE s
mixer_unpause(s) == IF s.mixer = "paused" THEN [s EXCEPT !.mixer = "playing"] ELSE s
\* play() raises pygame.error when no music is loaded
mixer_play(s) ==
    IF s.music = None THEN Raise(s, "pygame.error")
    ELSE [s EXCEPT !.mixer = "playing"]

\* set_volume(v) keeps int(v * 128): SDL's volume is an integer 0..128, a
\* larger value is clamped and a negative one changes nothing.  v is given
\* in hundredths.
mixer_set_volume(s, v) ==
    LET k == IF v >= 0 THEN (v * MixMaxVolume) \div 100
             ELSE 0 - (((0 - v) * MixMaxVolume) \div 100)
    IN  IF k < 0 THEN s
        ELSE [s EXCEPT !.volume = Min(k, MixMaxVolume)]
\* get_volume() returns volume / 128.0; here the number of 1/128 steps
mixer_get_volume(s) == s.volume

\* ------------------------------------------------------------ PygamePlayer
\* set_volume that does not reach the mixer
set_volume_dropped(s, v) == s

\* set_volume(volume), volume in hundredths
set_volume(s, v) == mixer_set_volume(s, v)
\* get_volume(), in steps of 1/128
get_volume(s) == mixer_get_volume(s)

\* _cleanup_resources("current"): close and forget the current track's handles
cleanup_current(s) == [s EXCEPT !.current_file = None, !.current_mmap = None]

\* _cleanup_resources("next"): close and forget the preloaded track's handles
cleanup_next(s) ==
    [s EXCEPT !.next_file = None, !.next_mmap = None, !.next_index = None]

\* _cleanup_resources("all")
cleanup_all(s) == cleanup_next(cleanup_current(s))

\* clear_cache
clear_cache(s) == [s EXCEPT !.cache = <<>>]

\* pygame.mixer.quit(): the output is closed and its music freed
mixer_quit(s) == [s EXCEPT !.mixer = "stopped", !.music = None]

\* cleanup(): release everything, then stop and quit the mixer; the bare
\* except swallows the pygame.error that music.stop() raises once the mixer
\* has been quit
cleanup(s) == mixer_quit(mixer_stop(clear_cache(cleanup_all(s))))

\* _preload_next_track: start a preload thread
preload_next_track(s) ==
    [s EXCEPT !.preload_threads = Min(@ + 1, MaxPreloadThreads)]

\* the condition of _use_preloaded_track
preloaded_hit(s) ==
    /\ s.next_index = Some(s.current_index)
    /\ s.next_file # None
    /\ s.next_mmap # None

\* _use_preloaded_track that does not reset _next_index
use_preloaded_track_keep_index(s) ==
    LET s1 == [cleanup_current(s) EXCEPT !.current_file = s.next_file,
                                         !.current_mmap = s.next_mmap,
                                         !.next_file = None,
                                         !.next_mmap = None]
    IN  IF PyValid(s.track_list, s.current_index) THEN s1
        ELSE Raise(s1, "IndexError")

\* _use_preloaded_track, when its condition holds: the preloaded handles
\* become the current ones.  Its log line reads track_list[current_index].
use_preloaded_track(s) ==
    LET s1 == [cleanup_current(s) EXCEPT !.current_file = s.next_file,
                                         !.current_mmap = s.next_mmap,
                                         !.next_file = None,
                                         !.next_mmap = None,
                                         !.next_index = None]
    IN  IF PyValid(s.track_list, s.current_index) THEN s1
        ELSE Raise(s1, "IndexError")

\* _manage_cache: above the maximum, keep the most recent max(2, max // 2)
manage_cache(s) ==
    IF Len(s.cache) > max_cache_size
    THEN [s EXCEPT !.cache = Tail_n(@, Max(2, max_cache_size \div 2))]
    ELSE s

\* self._cache[path] = True on an insertion-ordered dict
cache_touch(s, path) ==
    IF path \in Range(s.cache) THEN s ELSE [s EXCEPT !.cache = Append(@, path)]

\* load_track's "except Exception" handler: its log line reads
\* track_list[index], which raises IndexError out of the handler when index
\* is not a valid list index; otherwise the error is logged and swallowed.
load_track_except(s, index) ==
    IF PyValid(s.track_list, index) THEN Raise(s, "none")
    ELSE Raise(s, "IndexError")

\* the body of load_track's "if not self._use_preloaded_track()" branch
load_from_disk(s, index) ==
    LET s1 == cleanup_current(s)
        s2 == IF get_busy(s1) THEN mixer_stop(s1) ELSE s1
        s3 == manage_cache(s2)
    IN  IF ~PyValid(s3.track_list, index) THEN Raise(s3, "IndexError")
        ELSE LET t == PyGet(s3.track_list, index)
                 s4 == cache_touch(s3, t)
             IN  IF t \in s4.disk
                 THEN \* open, mmap and pygame.mixer.music.load succeed
                      [s4 EXCEPT !.current_file = Some(t),
                                 !.current_mmap = Some(t),
                                 !.music = Some(t),
                                 !.mixer = "stopped"]
                 ELSE \* open fails, the fallback load(path) fails too: the
                      \* mixer keeps the music it had
                      Raise(cleanup_current(s4), "pygame.error")

\* load_track(index)
load_track(s, index) ==
    LET r == IF preloaded_hit(s) THEN use_preloaded_track(s)
             ELSE load_from_disk(s, index)
    IN  IF r.exc = "none" THEN preload_next_track(r)
        ELSE load_track_except(r, index)

\* start_track
start_track(s) ==
    LET s1 == mixer_play(s)
    IN  IF s1.exc # "none" THEN s1
        ELSE LET s2 == [s1 EXCEPT !.paused = FALSE]
             IN  IF s2.current_index \in Range(s2.last_played) THEN s2
                 ELSE LET lp == Append(s2.last_played, s2.current_index)
                      IN  [s2 EXCEPT !.last_played =
                              IF Len(lp) > max_history THEN Tail(lp) ELSE lp]

\* load_track(current_index); start_track(): an exception ends the sequence
load_and_start(s) ==
    LET r == load_track(s, s.current_index)
    IN  IF r.exc # "none" THEN r ELSE start_track(r)

\* the trailing _preload_next_track() of next, back and play_track
then_preload(r) == IF r.exc # "none" THEN r ELSE preload_next_track(r)

\* play
play(s) ==
    IF s.paused
    THEN LET s1 == mixer_unpause(s)
         IN  IF ~get_busy(s1) THEN load_and_start(s1)
             ELSE [s1 EXCEPT !.paused = FALSE]
    ELSE load_and_start(s)

\* pause that pauses whatever the flag says
pause_no_toggle(s) == [mixer_pause(s) EXCEPT !.paused = TRUE]

\* pause
pause(s) ==
    IF s.paused THEN [mixer_unpause(s) EXCEPT !.paused = FALSE]
    ELSE [mixer_pause(s) EXCEPT !.paused = TRUE]

Indices(s) == 0..(Len(s.track_list) - 1)

\* the indices next() may choose from; empty when it raises ZeroDivisionError
next_candidates(s) ==
    LET n == Len(s.track_list)
        recent == Range(Tail_n(s.last_played,
                               Min(Len(s.last_played), ShuffleNextWindow)))
        fresh == {i \in Indices(s) : i \notin recent}
        others == {i \in Indices(s) : i # s.current_index}
    IN  IF s.shuffle_on /\ n > 1
        THEN IF fresh # {} THEN fresh
             ELSE IF others # {} THEN others
             ELSE {(s.current_index + 1) % n}
        ELSE IF n = 0 THEN {} ELSE {(s.current_index + 1) % n}

\* next, with the index it picked
next(s, pick) ==
    then_preload(load_and_start([s EXCEPT !.current_index = pick]))

\* back
back(s) ==
    IF Len(s.track_list) = 0 THEN Raise(s, "ZeroDivisionError")
    ELSE then_preload(load_and_start([s EXCEPT !.current_index =
                                 (s.current_index - 1) % Len(s.track_list)]))

\* play_track without the assignment of current_index
play_track_no_assign(s, index) ==
    then_preload(load_and_start(s))

\* play_track(index)
play_track(s, index) ==
    then_preload(load_and_start([s EXCEPT !.current_index = index]))

\* toggle_shuffle that reloads the current track for the new mode
toggle_shuffle_reload(s) ==
    load_track([s EXCEPT !.shuffle_on = ~@], s.current_index)

\* toggle_shuffle
toggle_shuffle(s) ==
    preload_next_track([s EXCEPT !.shuffle_on = ~@])

\* delete_track with the entry taken off the list before the file is removed
delete_track_del_first(s, index, rm_ok) ==
    IF index < 0 \/ index >= Len(s.track_list) THEN Raise(s, "IndexError")
    ELSE
    LET song == s.track_list[index + 1]
        n == Len(s.track_list)
        s1 == IF index = s.current_index
              THEN IF n > 1
                   THEN load_and_start([s EXCEPT !.current_index = (index + 1) % n])
                   ELSE [mixer_stop(s) EXCEPT !.paused = TRUE]
              ELSE s
    IN  IF song \notin s.disk THEN Raise(s, "FileNotFoundError")
        ELSE IF s1.exc # "none" THEN s1
        ELSE LET tl == RemoveAt(s1.track_list, index + 1)
                 s2 == [s1 EXCEPT !.track_list = tl]
             IN  IF ~rm_ok THEN Raise(s2, "PermissionError")
                 ELSE [s2 EXCEPT !.disk = @ \ {song},
                                 !.current_index = IF @ >= Len(tl) THEN 0 ELSE @]

\* delete_track(index); rm_ok: os.remove succeeds
delete_track(s, index, rm_ok) ==
    IF index < 0 \/ index >= Len(s.track_list) THEN Raise(s, "IndexError")
    ELSE
    LET song == s.track_list[index + 1]
        n == Len(s.track_list)
        s1 == IF index = s.current_index
              THEN IF n > 1
                   THEN load_and_start([s EXCEPT !.current_index = (index + 1) % n])
                   ELSE [mixer_stop(s) EXCEPT !.paused = TRUE]
              ELSE s
    IN  IF song \notin s.disk THEN Raise(s, "FileNotFoundError")
        ELSE IF s1.exc # "none" THEN s1
        ELSE IF ~rm_ok THEN Raise(s1, "PermissionError")
        ELSE LET tl == RemoveAt(s1.track_list, index + 1)
             IN  [s1 EXCEPT !.disk = @ \ {song},
                            !.track_list = tl,
                            !.current_index = IF @ >= Len(tl) THEN 0 ELSE @]

\* current_state(): the dict it returns
current_state(s) ==
    [current_index |-> s.current_index, volume |-> get_volume(s),
     paused |-> s.paused, shuffle |-> s.shuffle_on,
     cache_size |-> Len(s.cache)]

\* the index _do_preload_next_track may choose; empty when it returns early
preload_candidates(s) ==
    LET n == Len(s.track_list)
        recent == Range(Tail_n(s.last_played,
                               Min(Len(s.last_played), ShufflePreloadWindow)))
        avail == {i \in Indices(s) : i # s.current_index /\ i \notin recent}
        chosen == IF s.shuffle_on /\ avail # {} THEN avail
                  ELSE {(s.current_index + 1) % n}
    IN  IF s.next_mmap # None \/ n <= 1 THEN {}
        ELSE {i \in chosen : i # s.current_index}

\* _do_preload_next_track, having chosen index i
do_preload_next_track(s, i) ==
    LET t == PyGet(s.track_list, i)
        s1 == cleanup_next(s)
    IN  IF t \in s.disk
        THEN [s1 EXCEPT !.next_file = Some(t), !.next_mmap = Some(t),
                        !.next_index = Some(i)]
        ELSE s1

\* ------------------------------------------------------- catalog and disk
\* os.listdir of the audio folder: the files present, in directory order
Scan(d) ==
    SelectSeq([t \in 1..Max(NumTracks, ShuffleTracks) |-> t], LAMBDA t : t \in d)

\* ensure_files_in_playlist: the catalog is replaced by a fresh scan
ensure_files_in_playlist(s) == [s EXCEPT !.track_list = Scan(s.disk)]

\* the /api/reload route: rescan, clamp current_index, load the track
reload_songs(s) ==
    LET s1 == ensure_files_in_playlist(s)
        s2 == [s1 EXCEPT !.current_index = Min(@, Len(s1.track_list) - 1)]
    IN  load_track(s2, s2.current_index)

\* ------------------------------------------------------------ state update
Holds(r) ==
    /\ track_list = r.track_list
    /\ current_index = r.current_index
    /\ paused = r.paused
    /\ shuffle_on = r.shuffle_on
    /\ last_played = r.last_played
    /\ cache = r.cache
    /\ current_file = r.current_file
    /\ current_mmap = r.current_mmap
    /\ next_file = r.next_file
    /\ next_mmap = r.next_mmap
    /\ next_index = r.next_index
    /\ music = r.music
    /\ mixer = r.mixer
    /\ disk = r.disk
    /\ volume = r.volume
    /\ preload_threads = r.preload_threads

Commit(r) ==
    /\ track_list' = r.track_list
    /\ current_index' = r.current_index
    /\ paused' = r.paused
    /\ shuffle_on' = r.shuffle_on
    /\ last_played' = r.last_played
    /\ cache' = r.cache
    /\ current_file' = r.current_file
    /\ current_mmap' = r.current_mmap
    /\ next_file' = r.next_file
    /\ next_mmap' = r.next_mmap
    /\ next_index' = r.next_index
    /\ music' = r.music
    /\ mixer' = r.mixer
    /\ disk' = r.disk
    /\ volume' = r.volume
    /\ preload_threads' = r.preload_threads

\* the threads that call into the player: the asyncio thread running the
\* WebSocket handlers, the pygame_event_handler thread, a Flask request thread
Actors == {"ws", "watcher", "http"}
\* missed: the watcher's latest next() left the output without the track it
\* chose
Idle == [pc |-> "idle", index |-> 0, last_pos |-> 0, snap |-> None,
         missed |-> FALSE, last_local_activity |-> 0]
AllIdle == \A a \in Actors : th[a].pc = "idle"

\* a whole Player call made by one actor while no other call is in progress
Call(r) ==
    /\ phase = "running"
    /\ AllIdle
    /\ Commit(r)
    /\ UNCHANGED <<phase, cvars>>

\* -------------------------------------------------------------------- Init
\* PygamePlayer.__init__ on the scanned audio folder
Constructed(d) ==
    load_track([track_list |-> Scan(d), current_index |-> 0,
                paused |-> FALSE, shuffle_on |-> FALSE,
                last_played |-> <<>>, cache |-> <<>>,
                current_file |-> None, current_mmap |-> None,
                next_file |-> None, next_mmap |-> None, next_index |-> None,
                music |-> None, mixer |-> "stopped", disk |-> d,
                volume |-> MixMaxVolume, preload_threads |-> 0,
                exc |-> "none"], 0)

\* the background loops: pygame_event_handler, heartbeat_task,
\* Watchdog._monitor and MemoryMonitor._monitor
Loops == {"watcher", "heartbeat", "watchdog", "memory"}

\* no next() call yet, no client connected, nothing saved by this run, no
\* signal received
InitAux ==
    /\ picks = <<>>
    /\ ended = FALSE
    /\ clients = {}
    /\ state_changed = FALSE
    /\ state_file = None
    /\ owed = {}
    /\ now = 0
    /\ last_websocket_activity = 0
    /\ last_busy = 0
    /\ last_fire = None
    /\ shutdown_event = FALSE
    /\ running = TRUE
    /\ cleanups = 0
    /\ main = "serving"
    /\ loop = [l \in Loops |-> "sleep"]
    /\ orphans = 0

Init ==
    /\ Holds(Constructed(Tracks))
    /\ phase = "startup"
    /\ th = [a \in Actors |-> Idle]
    /\ calls = 0
    /\ seen = {[current_index |-> 0, paused |-> FALSE, shuffle |-> FALSE]}
    /\ InitAux

\* ----------------------------------------------------------------- startup
\* the saved states load_state() may return: None, or a snapshot written by
\* an earlier run (whose catalog may have been another one)
SavedIndices == 0..NumTracks
\* a saved volume is a value get_volume() returned: k / 128
SavedVolumes == {DefaultVolume}
SavedStates ==
    {None} \cup {Some([current_index |-> i, shuffle |-> b, volume |-> v]) :
                     i \in SavedIndices, b \in BOOLEAN, v \in SavedVolumes}

\* save_state(state_data): the state file holds the dict as JSON, whose
\* integers, booleans and floats k/128 are read back as they were written
save_state(st) == Some(st)

\* load_state(): the dict of the state file, or None without a file
load_state(file) == file

\* __main__: apply the saved state, load the track and start playing
restore(s, saved) ==
    LET s1 == IF saved = None
              THEN [s EXCEPT !.volume = DefaultVolume, !.paused = FALSE]
              ELSE [s EXCEPT !.current_index = saved[1].current_index,
                             !.shuffle_on = saved[1].shuffle,
                             !.volume = saved[1].volume,
                             !.paused = FALSE]
        r == load_track(s1, s1.current_index)
    IN  IF r.exc # "none" THEN r ELSE mixer_play(r)

Restore ==
    /\ phase = "startup"
    /\ \E saved \in SavedStates :
        LET r == restore(S, saved) IN
        /\ Commit(r)
        /\ phase' = IF r.exc = "none" THEN "running" ELSE "crashed"
    /\ UNCHANGED cvars

\* __main__ when load_state() returns None
FreshStart ==
    /\ phase = "startup"
    /\ LET r == restore(S, None) IN
        /\ Commit(r)
        /\ phase' = IF r.exc = "none" THEN "running" ELSE "crashed"
    /\ UNCHANGED cvars

\* ------------------------------------------------------------ Player calls
InputIndices == 0..NumTracks

CallPlay == Call(play(S))
CallPause == Call(pause(S))
CallNext ==
    IF next_candidates(S) = {}
    THEN Call(Raise(S, "ZeroDivisionError"))
    ELSE \E pick \in next_candidates(S) : Call(next(S, pick))
CallBack == Call(back(S))
CallPlayTrack == \E i \in InputIndices : Call(play_track(S, i))
CallToggleShuffle == Call(toggle_shuffle(S))
CallDeleteTrack ==
    \E i \in InputIndices, rm_ok \in BOOLEAN : Call(delete_track(S, i, rm_ok))

\* ------------------------------------------------------ background and env
\* one preload thread runs _do_preload_next_track (under _preload_lock)
PreloadThread ==
    /\ phase # "crashed"
    /\ preload_threads > 0
    /\ LET s == [S EXCEPT !.preload_threads = @ - 1] IN
       IF preload_candidates(s) = {} THEN Commit(s)
       ELSE \E i \in preload_candidates(s) : Commit(do_preload_next_track(s, i))
    /\ UNCHANGED <<phase, cvars>>

\* the playing track reaches its end
TrackEnds ==
    /\ phase = "running"
    /\ mixer = "playing"
    /\ mixer' = "stopped"
    /\ UNCHANGED <<track_list, current_index, paused, shuffle_on, last_played,
                   cache, current_file, current_mmap, next_file, next_mmap,
                   next_index, music, volume, disk, preload_threads, phase,
                   cvars>>

\* /system/cache refresh, /upload and the download routes: rescan only
RefreshCatalog == Call(ensure_files_in_playlist(S))

\* /api/reload; the route catches every exception
ReloadSongs == Call(reload_songs(S))

\* a file arrives in the audio folder (upload or download), then the rescan
Upload ==
    \E t \in Tracks \ disk :
        Call(ensure_files_in_playlist([S EXCEPT !.disk = @ \cup {t}]))

\* a file leaves the audio folder behind the server's back
FileVanishes ==
    /\ phase = "running"
    /\ \E t \in disk : disk' = disk \ {t}
    /\ UNCHANGED <<track_list, current_index, paused, shuffle_on, last_played,
                   cache, current_file, current_mmap, next_file, next_mmap,
                   next_index, music, mixer, volume, preload_threads, phase,
                   cvars>>

\* the player on a folder nothing else touches
Next ==
    \/ Restore
    \/ CallPlay
    \/ CallPause
    \/ CallNext
    \/ CallBack
    \/ CallPlayTrack
    \/ CallToggleShuffle
    \/ CallDeleteTrack
    \/ PreloadThread
    \/ TrackEnds

Spec == Init /\ [][Next]_vars

\* the player on a catalog that never changes
NextPlay ==
    \/ Restore
    \/ CallPlay
    \/ CallPause
    \/ CallNext
    \/ CallBack
    \/ CallPlayTrack
    \/ CallToggleShuffle
    \/ PreloadThread
    \/ TrackEnds

SpecPlay == Init /\ [][NextPlay]_vars

\* the player on a folder whose files come and go, with the rescans
NextEnv ==
    \/ FreshStart
    \/ CallNext
    \/ CallDeleteTrack
    \/ PreloadThread
    \/ RefreshCatalog
    \/ ReloadSongs
    \/ Upload
    \/ FileVanishes

SpecEnv == Init /\ [][NextEnv]_vars

\* ------------------------------------------------- calls running in steps
\* The player takes no lock around its operations (_preload_lock guards the
\* preload slots only), so a thread may be preempted between statements.
\* A call is cut into steps at statement boundaries; every step is atomic.

\* the actors inside a state-mutating call
Mutators == {a \in Actors : th[a].pc \in {"load", "start"}}

\* what current_state() reports of the player
Snapshot(ci, p, sh) == [current_index |-> ci, paused |-> p, shuffle |-> sh]

\* record the values that hold together while no mutating call is in progress
Observe ==
    seen' = IF \A a \in Actors : th'[a].pc \notin {"load", "start"}
            THEN seen \cup {Snapshot(current_index', paused', shuffle_on')}
            ELSE seen

\* the condition under which pygame_event_handler calls player.next()
song_ended(a) == ~paused /\ ~get_busy(S) /\ th[a].last_pos > 0

\* next(), first statement: current_index is assigned, and read again as the
\* argument of load_track
NextBegin(a) ==
    /\ phase = "running"
    /\ th[a].pc = "idle"
    /\ calls < MaxNextCalls
    /\ a = "watcher" => song_ended(a)
    /\ \E pick \in next_candidates(S) :
        /\ current_index' = pick
        /\ th' = [th EXCEPT ![a].pc = "load", ![a].index = pick]
    /\ calls' = calls + 1
    /\ UNCHANGED <<track_list, paused, shuffle_on, last_played, cache,
                   current_file, current_mmap, next_file, next_mmap,
                   next_index, music, mixer, volume, disk, preload_threads,
                   phase, hvars>>
    /\ Observe

\* next(): self.load_track(index)
NextLoad(a) ==
    /\ th[a].pc = "load"
    /\ LET r == load_track(S, th[a].index) IN
        /\ Commit(r)
        /\ th' = [th EXCEPT ![a].pc = IF r.exc = "none" THEN "start" ELSE "idle"]
    /\ UNCHANGED <<phase, calls, hvars>>
    /\ Observe

\* next(): self.start_track(); self._preload_next_track(); the watcher then
\* resets its last_pos
NextStart(a) ==
    /\ th[a].pc = "start"
    /\ Commit(then_preload(start_track(S)))
    /\ th' = [th EXCEPT ![a].pc = "idle", ![a].last_pos = 0]
    /\ UNCHANGED <<phase, calls, hvars>>
    /\ Observe

\* pygame_event_handler: while the music plays, last_pos = get_pos()
WatcherObserve ==
    /\ phase = "running"
    /\ th["watcher"].pc = "idle"
    /\ ~paused /\ get_busy(S)
    /\ th["watcher"].last_pos = 0
    /\ th' = [th EXCEPT !["watcher"].last_pos = 1]
    /\ UNCHANGED <<pvars, phase, calls, seen, hvars>>

\* a WebSocket "pause" command, run without preemption
WsPause ==
    /\ phase = "running"
    /\ th["ws"].pc = "idle"
    /\ Commit(pause(S))
    /\ UNCHANGED <<phase, th, calls, hvars>>
    /\ Observe

\* current_state(), first dict entry: current_index is read
SnapBegin(a) ==
    /\ phase = "running"
    /\ th[a].pc = "idle"
    /\ th' = [th EXCEPT ![a].pc = "snap", ![a].index = current_index]
    /\ UNCHANGED <<pvars, phase, calls, seen, hvars>>

\* current_state(), remaining entries: paused and shuffle_on are read
SnapEnd(a) ==
    /\ th[a].pc = "snap"
    /\ th' = [th EXCEPT ![a].pc = "idle",
                        ![a].snap = Some(Snapshot(th[a].index, paused, shuffle_on))]
    /\ UNCHANGED <<pvars, phase, calls, seen, hvars>>

\* a WebSocket client and the end-of-track watcher calling next() while a
\* Flask request thread takes snapshots; the preload threads have not run yet
NextConc ==
    \/ FreshStart
    \/ TrackEnds
    \/ WatcherObserve
    \/ WsPause
    \/ NextBegin("ws")
    \/ NextBegin("watcher")
    \/ \E a \in {"ws", "watcher"} : NextLoad(a)
    \/ \E a \in {"ws", "watcher"} : NextStart(a)
    \/ SnapBegin("http")
    \/ SnapEnd("http")

SpecConc == Init /\ [][NextConc]_vars

\* ------------------------------------------------------------ the volume
\* the volumes a client sends with "volume:<v>", in hundredths
VolumeInputs == {0, 30, 50, 75, 100}

\* a WebSocket "volume:<v>" command
CallSetVolume == \E v \in VolumeInputs : Call(set_volume(S, v))

NextVolume ==
    \/ FreshStart
    \/ CallSetVolume
    \/ CallPause
    \/ CallNext
    \/ CallToggleShuffle
    \/ PreloadThread
    \/ TrackEnds

SpecVolume == Init /\ [][NextVolume]_vars

\* ------------------------------------------------- shuffle on six tracks
\* the picks a call of next() may not repeat: a window of ShuffleNextWindow
\* consecutive calls is this call and the four before it
ShuffleRun == ShuffleNextWindow - 1

InitShuffle ==
    /\ Holds(Constructed(1..ShuffleTracks))
    /\ phase = "startup"
    /\ th = [a \in Actors |-> Idle]
    /\ calls = 0
    /\ seen = {[current_index |-> 0, paused |-> FALSE, shuffle |-> FALSE]}
    /\ InitAux

\* a WebSocket "next" command; picks follows the calls made with shuffle on
ShuffleNext ==
    /\ phase = "running"
    /\ AllIdle
    /\ \E pick \in next_candidates(S) :
        /\ Commit(next(S, pick))
        /\ picks' = IF shuffle_on
                    THEN Tail_n(Append(picks, pick),
                                Min(Len(picks) + 1, ShuffleRun))
                    ELSE <<>>
    /\ UNCHANGED <<phase, th, calls, seen, ended, clients, state_changed,
                   state_file, owed, tvars, xvars>>

\* __main__ with a saved state that has shuffle on
RestoreShuffle ==
    /\ phase = "startup"
    /\ LET r == restore(S, Some([current_index |-> 0, shuffle |-> TRUE,
                                   volume |-> DefaultVolume])) IN
        /\ Commit(r)
        /\ phase' = IF r.exc = "none" THEN "running" ELSE "crashed"
    /\ UNCHANGED cvars

\* next() called again and again with shuffle on
NextShuffle ==
    \/ RestoreShuffle
    \/ ShuffleNext
    \/ PreloadThread

SpecShuffle == InitShuffle /\ [][NextShuffle]_vars

\* ------------------------------------ the end-of-track watcher and clients
\* pygame_event_handler runs in a thread of its own, the WebSocket handlers
\* in the asyncio thread, the routes in Flask threads.  The watcher's loop
\* is cut at its calls into the player; pause() is cut between its call to
\* the mixer and its assignment of the flag.
Clients == {"c1", "c2"}

\* the playing track reaches its end
TrackRunsOut ==
    /\ phase = "running"
    /\ mixer = "playing"
    /\ mixer' = "stopped"
    /\ ended' = TRUE
    /\ UNCHANGED <<track_list, current_index, paused, shuffle_on, last_played,
                   cache, current_file, current_mmap, next_file, next_mmap,
                   next_index, music, volume, disk, preload_threads, phase,
                   th, calls, seen, picks, clients, state_changed,
                   state_file, owed, tvars, xvars>>

\* one turn of the watcher's loop: it decides that the song ended, or it
\* records the position of the playing track
WatcherPoll ==
    /\ phase = "running"
    /\ th["watcher"].pc = "idle"
    /\ \/ /\ song_ended("watcher")
          /\ th' = [th EXCEPT !["watcher"].pc = "next"]
       \/ /\ ~paused /\ get_busy(S)
          /\ th["watcher"].last_pos = 0
          /\ th' = [th EXCEPT !["watcher"].last_pos = 1]
    /\ UNCHANGED <<pvars, phase, calls, seen, hvars>>

\* the watcher reads track_list[current_index] for its log line and calls
\* player.next(); an exception ends the thread
WatcherNext ==
    /\ th["watcher"].pc = "next"
    /\ IF ~PyValid(track_list, current_index) \/ next_candidates(S) = {}
       THEN /\ th' = [th EXCEPT !["watcher"].pc = "dead"]
            /\ UNCHANGED <<pvars, ended>>
       ELSE \E pick \in next_candidates(S) :
                LET r == next(S, pick) IN
                /\ Commit(r)
                /\ th' = [th EXCEPT !["watcher"].pc =
                                        IF r.exc = "none" THEN "report"
                                        ELSE "dead",
                                    !["watcher"].last_pos = 0,
                                    !["watcher"].missed =
                                        (r.music # Some(PyGet(r.track_list, pick)))]
                /\ ended' = IF r.mixer = "playing" THEN FALSE ELSE ended
    /\ UNCHANGED <<phase, calls, seen, picks, clients, state_changed,
                   state_file, owed, tvars, xvars>>

\* broadcast_state_change(state), called in a thread that has an asyncio
\* event loop (has_loop) or has none: the flag is set; then, when clients
\* are connected, asyncio.get_event_loop() raises RuntimeError in a thread
\* without a loop, else one send task per client is created
broadcast_state_change(conns, state, has_loop) ==
    [state_changed |-> TRUE,
     last_state |-> state,
     tasks |-> IF has_loop THEN conns ELSE {},
     exc |-> IF conns # {} /\ ~has_loop THEN "RuntimeError" ELSE "none"]

\* _send_state_update(websocket, state): a failed send drops the client from
\* the set of connected clients
send_state_update(conns, c, send_ok) ==
    [clients |-> IF send_ok THEN conns ELSE conns \ {c},
     delivered |-> send_ok]

\* the watcher saves the snapshot and calls broadcast_state_change, whose
\* asyncio.get_event_loop() raises RuntimeError in this thread as soon as a
\* client is connected; nothing in the loop catches it
WatcherReport ==
    /\ th["watcher"].pc = "report"
    /\ state_file' = Some(current_state(S))
    /\ state_changed' =
           broadcast_state_change(clients, current_state(S), FALSE).state_changed
    /\ owed' = owed \cup clients
    /\ th' = [th EXCEPT !["watcher"].pc =
           IF broadcast_state_change(clients, current_state(S), FALSE).exc = "none"
           THEN "idle" ELSE "dead"]
    /\ UNCHANGED <<pvars, phase, calls, seen, picks, ended, clients, tvars, xvars>>

\* pause(), up to its call to the mixer
PauseBegin ==
    /\ phase = "running"
    /\ th["ws"].pc = "idle"
    /\ IF paused
       THEN /\ Commit(mixer_unpause(S))
            /\ th' = [th EXCEPT !["ws"].pc = "pause_clear"]
       ELSE /\ Commit(mixer_pause(S))
            /\ th' = [th EXCEPT !["ws"].pc = "pause_set"]
    /\ UNCHANGED <<phase, calls, seen, hvars>>

\* pause(), the assignment of the flag
PauseEnd ==
    /\ th["ws"].pc \in {"pause_set", "pause_clear"}
    /\ paused' = (th["ws"].pc = "pause_set")
    /\ th' = [th EXCEPT !["ws"].pc = "idle"]
    /\ UNCHANGED <<track_list, current_index, shuffle_on, last_played, cache,
                   current_file, current_mmap, next_file, next_mmap,
                   next_index, music, mixer, volume, disk, preload_threads,
                   phase, calls, seen, hvars>>

\* the /api/reload route, served by a Flask thread
ReloadWhilePlaying ==
    /\ phase = "running"
    /\ th["http"].pc = "idle"
    /\ Commit(reload_songs(S))
    /\ UNCHANGED <<phase, cvars>>

\* a client connects: it is sent the current state
ClientConnects ==
    /\ phase = "running"
    /\ \E c \in Clients \ clients : clients' = clients \cup {c}
    /\ UNCHANGED <<pvars, phase, th, calls, seen, picks, ended, state_changed,
                   state_file, owed, tvars, xvars>>

\* a client's connection closes
ClientLeaves ==
    /\ \E c \in clients :
        /\ clients' = clients \ {c}
        /\ owed' = owed \ {c}
    /\ UNCHANGED <<pvars, phase, th, calls, seen, picks, ended, state_changed,
                   state_file, tvars, xvars>>

\* a client sends "volume:0.5": the handler clears _state_changed, runs the
\* command, saves the state and sends it to this client
ClientCommand ==
    /\ phase = "running"
    /\ th["ws"].pc = "idle"
    /\ \E c \in clients :
        LET r == set_volume(S, 50) IN
        /\ Commit(r)
        /\ state_changed' = FALSE
        /\ state_file' = Some(current_state(r))
        /\ owed' = owed \ {c}
    /\ UNCHANGED <<phase, th, calls, seen, picks, ended, clients, tvars, xvars>>

\* the steps the watcher thread takes by itself
WatcherStep == WatcherPoll \/ WatcherNext \/ WatcherReport

NextWatch ==
    \/ FreshStart
    \/ TrackRunsOut
    \/ WatcherPoll
    \/ WatcherNext
    \/ WatcherReport
    \/ PauseBegin
    \/ PauseEnd
    \/ ReloadWhilePlaying
    \/ ClientConnects
    \/ ClientLeaves
    \/ ClientCommand

SpecWatch == Init /\ [][NextWatch]_vars

\* the watcher and the clients alone
NextPush ==
    \/ FreshStart
    \/ TrackRunsOut
    \/ WatcherPoll
    \/ WatcherNext
    \/ WatcherReport
    \/ ClientConnects
    \/ ClientLeaves
    \/ ClientCommand

\* the watcher thread keeps running: its loop takes its next step whenever
\* it has one; nothing makes a client send a command
SpecPush == Init /\ [][NextPush]_vars /\ WF_vars(WatcherStep)

\* ------------------------------------------- the watcher and missing files
\* A track lasts longer than the watcher's sleep of 0.1 s: while the watcher
\* polls, a track ends only after the watcher has recorded its position.
TrackPlaysOut ==
    /\ \/ th["watcher"].pc = "dead"
       \/ th["watcher"].pc = "idle" /\ th["watcher"].last_pos > 0
    /\ TrackRunsOut

\* the watcher, clients that connect, and files that leave the folder
NextRetry ==
    \/ FreshStart
    \/ FileVanishes
    \/ TrackPlaysOut
    \/ WatcherPoll
    \/ WatcherNext
    \/ WatcherReport
    \/ ClientConnects

\* the watcher thread takes its next step whenever it has one
SpecRetry == Init /\ [][NextRetry]_vars /\ WF_vars(WatcherStep)

\* ------------------------------------------------ the watcher's idle check
\* Time is counted in seconds.  The watcher sleeps between two turns of its
\* loop; what the other threads do between two turns happens at the time of
\* the earlier one.

\* the idle check without the reset of last_local_activity
idle_check_no_reset(s, local, ws_activity, t) ==
    IF t - Max(local, ws_activity) > idle_timeout /\ (~get_busy(s) \/ s.paused)
    THEN [s |-> cleanup_next(s), last_local_activity |-> local, fired |-> TRUE]
    ELSE [s |-> s, last_local_activity |-> local, fired |-> FALSE]

\* the idle check that ends a turn of the loop, at current_time = t
idle_check(s, local, ws_activity, t) ==
    IF t - Max(local, ws_activity) > idle_timeout /\ (~get_busy(s) \/ s.paused)
    THEN [s |-> cleanup_next(s), last_local_activity |-> t, fired |-> TRUE]
    ELSE [s |-> s, last_local_activity |-> local, fired |-> FALSE]

\* "track the current position": a playing output is activity
track_position(s, w, t) ==
    IF ~s.paused /\ get_busy(s)
    THEN [w EXCEPT !.last_pos = 1, !.last_local_activity = t]
    ELSE w

\* the end of a turn that began at time t: position tracking and idle check
TurnEnds(r, w, t) ==
    LET w1 == track_position(r, w, t)
        c == idle_check(r, w1.last_local_activity, last_websocket_activity, t)
    IN  /\ Commit(c.s)
        /\ th' = [th EXCEPT !["watcher"] =
                      [w1 EXCEPT !.last_local_activity = c.last_local_activity]]
        /\ last_fire' = IF c.fired THEN Some(t) ELSE last_fire

\* the watcher thread ends with an exception during the turn
TurnFails(r) ==
    /\ Commit(r)
    /\ th' = [th EXCEPT !["watcher"].pc = "dead"]
    /\ UNCHANGED last_fire

\* the watcher wakes up and runs one turn of its loop
WatcherWakes ==
    /\ phase = "running"
    /\ th["watcher"].pc = "idle"
    /\ now < MaxTime
    /\ now' = now + WakeStep
    /\ LET w == th["watcher"]
           t == now + WakeStep
       IN  IF ~song_ended("watcher")
           THEN /\ TurnEnds(S, w, t)
                /\ UNCHANGED <<ended, state_changed, state_file, owed>>
           ELSE IF ~PyValid(track_list, current_index) \/ next_candidates(S) = {}
           THEN /\ TurnFails(S)
                /\ UNCHANGED <<ended, state_changed, state_file, owed>>
           ELSE \E pick \in next_candidates(S) :
                LET r == next(S, pick)
                    w0 == [w EXCEPT !.last_pos = 0, !.last_local_activity = t,
                                    !.missed =
                                        (r.music # Some(PyGet(r.track_list, pick)))]
                IN  /\ ended' = IF r.mixer = "playing" THEN FALSE ELSE ended
                    /\ IF r.exc # "none"
                       THEN /\ TurnFails(r)
                            /\ UNCHANGED <<state_changed, state_file, owed>>
                       ELSE /\ state_file' = Some(current_state(r))
                            /\ state_changed' = TRUE
                            /\ owed' = owed \cup clients
                            /\ IF clients # {} THEN TurnFails(r)
                               ELSE TurnEnds(r, w0, t)
    /\ last_busy' = IF mixer' = "playing" THEN now' ELSE last_busy
    /\ UNCHANGED <<phase, calls, seen, picks, clients, last_websocket_activity,
                   xvars>>

\* a client sends "pause": the handler notes the time of the message, clears
\* _state_changed, runs the command, saves the state and sends it back
ClientPauses ==
    /\ phase = "running"
    /\ th["ws"].pc = "idle"
    /\ \E c \in clients :
        LET r == pause(S) IN
        /\ Commit(r)
        /\ last_websocket_activity' = now
        /\ last_busy' = IF r.mixer = "playing" THEN now ELSE last_busy
        /\ state_changed' = FALSE
        /\ state_file' = Some(current_state(r))
        /\ owed' = owed \ {c}
    /\ UNCHANGED <<phase, th, calls, seen, picks, ended, clients, now, last_fire,
                   xvars>>

\* the watcher with its clock, clients that pause and resume
NextIdle ==
    \/ FreshStart
    \/ TrackRunsOut
    \/ WatcherWakes
    \/ ClientConnects
    \/ ClientLeaves
    \/ ClientPauses

SpecIdle == Init /\ [][NextIdle]_vars

\* ------------------------------------------------- the WebSocket handler
\* A message is the text before its first ":" (head), whether it has a ":",
\* and the characters after it (arg).  The handler has stripped and
\* lower-cased it.
Digits == <<"0", "1", "2", "3", "4", "5", "6", "7", "8", "9">>
IsDigit(ch) == \E d \in 1..Len(Digits) : Digits[d] = ch
DigitVal(ch) == (CHOOSE d \in 1..Len(Digits) : Digits[d] = ch) - 1
AllDigits(a) == \A k \in 1..Len(a) : IsDigit(a[k])

\* the value of a sequence of digits
RECURSIVE DigitsVal(_)
DigitsVal(a) ==
    IF a = <<>> THEN 0
    ELSE 10 * DigitsVal(SubSeq(a, 1, Len(a) - 1)) + DigitVal(a[Len(a)])

\* the text without its sign, and the sign
Unsigned(a) == IF a # <<>> /\ a[1] \in {"-", "+"} THEN Tail(a) ELSE a
Sign(a) == IF a # <<>> /\ a[1] = "-" THEN 0 - 1 ELSE 1

\* int() that takes a text it cannot read for 0
ParseIntLenient(a) ==
    LET u == Unsigned(a) IN
    IF u # <<>> /\ AllDigits(u) THEN [ok |-> TRUE, val |-> Sign(a) * DigitsVal(u)]
    ELSE [ok |-> TRUE, val |-> 0]

\* int(text): an optional sign and at least one digit, else ValueError
ParseInt(a) ==
    LET u == Unsigned(a) IN
    IF u # <<>> /\ AllDigits(u) THEN [ok |-> TRUE, val |-> Sign(a) * DigitsVal(u)]
    ELSE [ok |-> FALSE, val |-> 0]

\* float(text), in hundredths, for a text with at most two decimals: an
\* optional sign, digits, and optionally a "." and digits, with at least one
\* digit in all; else ValueError
ParseFloat(a) ==
    LET u == Unsigned(a)
        dots == {k \in 1..Len(u) : u[k] = "."}
        dot == IF dots = {} THEN Len(u) + 1 ELSE CHOOSE k \in dots : TRUE
        whole == SubSeq(u, 1, dot - 1)
        frac == SubSeq(u, dot + 1, Len(u))
        cents == IF Len(frac) = 0 THEN 0
                 ELSE IF Len(frac) = 1 THEN 10 * DigitsVal(frac)
                 ELSE DigitsVal(SubSeq(frac, 1, 2))
    IN  IF Cardinality(dots) <= 1 /\ AllDigits(whole) /\ AllDigits(frac)
           /\ Len(whole) + Len(frac) > 0
        THEN [ok |-> TRUE, val |-> Sign(a) * (100 * DigitsVal(whole) + cents)]
        ELSE [ok |-> FALSE, val |-> 0]

Msg(head, colon, arg) == [head |-> head, colon |-> colon, arg |-> arg]

\* what the handler does towards the outside, in order: a call of
\* save_state_callback, or a JSON message sent to a client
SaveState(st) ==
    [kind |-> "save", to |-> "state file", state |-> Some(st), songs |-> None,
     message |-> None]
Send(c, st, songs, message) ==
    [kind |-> "send", to |-> c, state |-> st, songs |-> songs,
     message |-> message]

\* the "songs" list of a payload: one entry per catalog track
songs_payload(s) == s.track_list

\* the payload sent to a client that connects
init_payload(s, c) == Send(c, Some(current_state(s)), Some(songs_payload(s)), None)

\* the index next() takes when it is called: any candidate
NextPicks(s) == IF next_candidates(s) = {} THEN {0} ELSE next_candidates(s)

\* command_map[command]()
command_map(s, command, pick) ==
    IF command = "play" THEN play(s)
    ELSE IF command = "pause" THEN pause(s)
    ELSE IF command = "next"
         THEN IF next_candidates(s) = {} THEN Raise(s, "ZeroDivisionError")
              ELSE next(s, pick)
    ELSE IF command = "back" THEN back(s)
    ELSE toggle_shuffle(s)

SimpleCommands == {"play", "pause", "next", "back", "toggle-shuffle"}

\* the result of a branch: the player, whether the command changed the state
\* (command_changed_state), what was sent, and the exception that reached
\* the handler's outer "except Exception", which only logs it
Branch(r, changed, out, exc) ==
    [s |-> Raise(r, "none"), changed |-> changed, out |-> out, exc |-> exc]

\* a branch that answers nothing itself: an exception goes to the outer
\* handler
Unanswered(r) == Branch(r, r.exc = "none", <<>>, r.exc)

\* a branch whose inner "except (ValueError, IndexError)" answers with text
Answered(r, c, text) ==
    IF r.exc \in {"ValueError", "IndexError"}
    THEN Branch(r, FALSE, <<Send(c, None, None, Some(text))>>, "none")
    ELSE Unanswered(r)

\* the "delete:" branch that also sends the state when the deletion fails
delete_answer_with_state(r, c) ==
    IF r.exc = "none"
    THEN Branch(r, FALSE,
                <<Send(c, Some(current_state(r)), Some(songs_payload(r)),
                       Some("Song deleted."))>>, "none")
    ELSE Branch(r, FALSE,
                <<Send(c, Some(current_state(r)), None,
                       Some("Error deleting song"))>>, "none")

\* the "delete:" branch after delete_track; both its ways end with "continue"
delete_answer(r, c) ==
    IF r.exc = "none"
    THEN Branch(r, FALSE,
                <<Send(c, Some(current_state(r)), Some(songs_payload(r)),
                       Some("Song deleted."))>>, "none")
    ELSE Branch(r, FALSE,
                <<Send(c, None, None, Some("Error deleting song"))>>, "none")

\* int(...) followed by player.delete_track(index)
delete_command(s, n, rm_ok) ==
    IF n.ok THEN delete_track(s, n.val, rm_ok) ELSE Raise(s, "ValueError")

\* int(...) followed by player.play_track(index)
play_command(s, n) ==
    IF n.ok THEN play_track(s, n.val) ELSE Raise(s, "ValueError")

\* float(...) followed by player.set_volume(volume)
volume_command(s, v) ==
    IF v.ok THEN set_volume(s, v.val) ELSE Raise(s, "ValueError")

\* the dispatch on the command
dispatch(s, c, msg, rm_ok, pick) ==
    IF ~msg.colon /\ msg.head \in SimpleCommands
    THEN Unanswered(command_map(s, msg.head, pick))
    ELSE IF msg.colon /\ msg.head = "play"
    THEN Answered(play_command(s, ParseInt(msg.arg)), c,
                  "Invalid play command format")
    ELSE IF msg.colon /\ msg.head = "volume"
    THEN Answered(volume_command(s, ParseFloat(msg.arg)), c,
                  "Invalid volume command format")
    ELSE IF msg.colon /\ msg.head = "delete"
    THEN delete_answer(delete_command(s, ParseInt(msg.arg), rm_ok), c)
    ELSE Branch(s, FALSE, <<Send(c, None, None, Some("Unknown command"))>>,
                "none")

\* "only save state if the command changed it": save, then send the state
save_and_send(b, c) ==
    IF b.changed
    THEN b.out \o <<SaveState(current_state(b.s)),
                    Send(c, Some(current_state(b.s)), None, None)>>
    ELSE b.out

\* the turn of the message loop, given the result b of the dispatch
message_turn(s, flag, c, b) ==
    [s |-> b.s,
     state_changed |-> FALSE,
     pushed |-> IF flag THEN <<Send(c, Some(current_state(s)), None, None)>>
                ELSE <<>>,
     out |-> save_and_send(b, c),
     exc |-> b.exc]

\* one turn of websocket_handler's message loop for a message of client c,
\* flag being _state_changed: the pending state of an auto-advance is sent
\* first (pushed), then the command is run and answered (out)
ws_message(s, flag, c, msg, rm_ok, pick) ==
    message_turn(s, flag, c, dispatch(s, c, msg, rm_ok, pick))

\* the snapshots an effect sequence hands to save_state_callback
Saves(out) == SelectSeq(out, LAMBDA e : e.kind = "save")

\* the messages a client may send
PlayArgs == {<<"0">>, <<"2">>, <<"3">>, <<"-", "1">>, <<"x">>, <<>>,
             <<"1", ".", "5">>}
VolumeArgs == {<<"0", ".", "5">>, <<"1">>, <<".", "3">>, <<"x">>, <<>>}
DeleteArgs == {<<"0">>, <<"1">>, <<"3">>, <<"x">>}
GoodMessages ==
    {Msg(h, FALSE, <<>>) : h \in SimpleCommands}
        \cup {Msg("play", TRUE, a) : a \in PlayArgs}
        \cup {Msg("volume", TRUE, a) : a \in VolumeArgs}
        \cup {Msg("delete", TRUE, a) : a \in DeleteArgs}
UnknownMessages ==
    {Msg("stop", FALSE, <<>>), Msg("pause", TRUE, <<"1">>),
     Msg("volume", FALSE, <<>>)}
Messages == GoodMessages \cup UnknownMessages

\* the messages the clients of this server do send
SentMessages ==
    {Msg("pause", FALSE, <<>>), Msg("next", FALSE, <<>>),
     Msg("play", FALSE, <<>>), Msg("play", TRUE, <<"3">>),
     Msg("play", TRUE, <<"x">>), Msg("volume", TRUE, <<"0", ".", "5">>),
     Msg("volume", TRUE, <<"x">>), Msg("delete", TRUE, <<"1">>),
     Msg("delete", TRUE, <<"x">>), Msg("stop", FALSE, <<>>)}

\* the state file after the calls of save_state_callback in out
saved_after(out, file) ==
    IF Saves(out) = <<>> THEN file ELSE Saves(out)[Len(Saves(out))].state

\* the effects of a turn h of the message loop for client c
MessageHandled(h, c) ==
    /\ Commit(h.s)
    /\ state_changed' = h.state_changed
    /\ state_file' = saved_after(h.out, state_file)
    /\ owed' = owed \ {c}
    /\ last_websocket_activity' = now

\* a client's message is handled
ClientMessage ==
    /\ phase = "running"
    /\ th["ws"].pc = "idle"
    /\ \E c \in clients, msg \in SentMessages, rm_ok \in BOOLEAN, pick \in NextPicks(S) :
        MessageHandled(ws_message(S, state_changed, c, msg, rm_ok, pick), c)
    /\ UNCHANGED <<phase, th, calls, seen, picks, ended, clients, now,
                   last_busy, last_fire, xvars>>

\* the server and its WebSocket clients
NextWs ==
    \/ FreshStart
    \/ ClientConnects
    \/ ClientLeaves
    \/ ClientMessage
    \/ PreloadThread
    \/ TrackEnds

SpecWs == Init /\ [][NextWs]_vars

\* ---------------------------------------------------------------- shutdown
\* cleanup() is called by the signal handler, by the atexit hook and at the
\* end of start_servers, on a player that runs or was cleaned up already;
\* the preload threads are daemon threads and run until the process exits
Shutdown ==
    /\ phase \in {"running", "shutdown"}
    /\ Commit(cleanup(S))
    /\ phase' = "shutdown"
    /\ UNCHANGED cvars

\* the player until the process exits
NextShutdown ==
    \/ FreshStart
    \/ CallPause
    \/ CallNext
    \/ CallToggleShuffle
    \/ PreloadThread
    \/ TrackEnds
    \/ Shutdown

SpecShutdown == Init /\ [][NextShutdown]_vars

\* ------------------------------------------------ signals and process exit
\* The signal handler and the asyncio event loop run in the main thread; the
\* watcher, the watchdog and the memory monitor are daemon threads; the
\* heartbeat is a task of the event loop.  Once pygame.mixer.quit() has run,
\* every call of pygame.mixer.music raises pygame.error and
\* pygame.mixer.get_init() returns None.
mixer_get_init(n) == n = 0

\* a loop condition that ignores shutdown_event
loop_condition_no_event(l, run, event) ==
    IF l \in {"watchdog", "memory"} THEN run ELSE TRUE

\* the condition of the loop's "while"
loop_condition(l, run, event) ==
    IF l \in {"watchdog", "memory"} THEN run /\ ~event ELSE ~event

\* Watchdog._restart_application: save_state(player.current_state()) reads
\* the volume from the mixer, which raises once the mixer has been quit;
\* else os.execv replaces the process
restart_application(mixer_init) ==
    IF mixer_init THEN "execv" ELSE "pygame.error"

\* the health check of Watchdog._monitor; the heartbeat task runs every 15 s
\* while the event loop serves, so no heartbeat is older than 60 s in a turn
\* that began before the signal.  The check's "except Exception" logs what
\* _restart_application raises.
watchdog_health(mixer_init) ==
    IF ~mixer_init THEN restart_application(mixer_init) ELSE "ok"

\* SIGINT or SIGTERM: signal_handler sets shutdown_event and calls
\* player.cleanup(); player.current_state() then raises pygame.error (the
\* mixer has been quit), so nothing is saved and the error ends
\* asyncio.run() instead of sys.exit(0)
Signal ==
    /\ phase = "running"
    /\ main = "serving"
    /\ shutdown_event' = TRUE
    /\ Commit(cleanup(S))
    /\ cleanups' = cleanups + 1
    /\ main' = "unwinding"
    /\ phase' = "shutdown"
    /\ UNCHANGED <<th, calls, seen, picks, ended, clients, state_changed,
                   state_file, owed, tvars, running, loop, orphans>>

\* asyncio.run() cancels the tasks: the heartbeat task ends and the "finally"
\* of start_servers stops the monitors and calls player.cleanup()
ServerShutdown ==
    /\ main = "unwinding"
    /\ loop' = [loop EXCEPT !["heartbeat"] = "exited"]
    /\ running' = FALSE
    /\ Commit(cleanup(S))
    /\ cleanups' = cleanups + 1
    /\ main' = "atexit"
    /\ UNCHANGED <<phase, th, calls, seen, picks, ended, clients,
                   state_changed, state_file, owed, tvars, shutdown_event,
                   orphans>>

\* the atexit hooks, latest first: save_state(player.current_state()) raises
\* and is skipped, then player.cleanup(); the daemon threads end with the
\* process
AtExit ==
    /\ main = "atexit"
    /\ Commit(cleanup(S))
    /\ cleanups' = cleanups + 1
    /\ main' = "exited"
    /\ loop' = [l \in Loops |-> "exited"]
    /\ UNCHANGED <<phase, th, calls, seen, picks, ended, clients,
                   state_changed, state_file, owed, tvars, shutdown_event,
                   running, orphans>>

\* a loop wakes up and evaluates the condition of its "while"; the heartbeat
\* task is resumed by the event loop only
LoopChecks ==
    /\ phase \in {"running", "shutdown"}
    /\ main # "exited"
    /\ \E l \in Loops :
        /\ loop[l] = "sleep"
        /\ l = "heartbeat" => main = "serving"
        /\ loop' = [loop EXCEPT ![l] =
                       IF loop_condition(l, running, shutdown_event)
                       THEN "turn" ELSE "exited"]
    /\ UNCHANGED <<pvars, phase, th, calls, seen, picks, ended, clients,
                   state_changed, state_file, owed, tvars, shutdown_event,
                   running, cleanups, main, orphans>>

\* the body of the watcher's loop; once the mixer has been quit get_busy()
\* raises pygame.error as soon as the player is not paused, which ends the
\* thread, as does any other exception
WatcherTurn ==
    /\ loop["watcher"] = "turn"
    /\ main # "exited"
    /\ IF ~mixer_get_init(cleanups)
       THEN /\ loop' = [loop EXCEPT !["watcher"] =
                            IF paused THEN "sleep" ELSE "exited"]
            /\ UNCHANGED <<pvars, th, ended, state_file, state_changed>>
       ELSE IF ~song_ended("watcher")
       THEN /\ loop' = [loop EXCEPT !["watcher"] = "sleep"]
            /\ th' = [th EXCEPT !["watcher"] = track_position(S, @, now)]
            /\ UNCHANGED <<pvars, ended, state_file, state_changed>>
       ELSE IF ~PyValid(track_list, current_index) \/ next_candidates(S) = {}
       THEN /\ loop' = [loop EXCEPT !["watcher"] = "exited"]
            /\ UNCHANGED <<pvars, th, ended, state_file, state_changed>>
       ELSE \E pick \in next_candidates(S) :
            LET r == next(S, pick)
                b == broadcast_state_change(clients, current_state(r), FALSE)
            IN  /\ Commit(r)
                /\ th' = [th EXCEPT !["watcher"].last_pos = 0]
                /\ ended' = IF r.mixer = "playing" THEN FALSE ELSE ended
                /\ state_file' = IF r.exc = "none"
                                 THEN save_state(current_state(r))
                                 ELSE state_file
                /\ state_changed' = IF r.exc = "none" THEN b.state_changed
                                    ELSE state_changed
                /\ loop' = [loop EXCEPT !["watcher"] =
                               IF r.exc = "none" /\ b.exc = "none"
                               THEN "sleep" ELSE "exited"]
    /\ UNCHANGED <<phase, calls, seen, picks, clients, owed, tvars,
                   shutdown_event, running, cleanups, main, orphans>>

\* the body of Watchdog._monitor's loop
WatchdogTurn ==
    /\ loop["watchdog"] = "turn"
    /\ main # "exited"
    /\ watchdog_health(mixer_get_init(cleanups)) \in {"ok", "pygame.error"}
    /\ loop' = [loop EXCEPT !["watchdog"] = "sleep"]
    /\ UNCHANGED <<pvars, phase, th, calls, seen, picks, ended, clients,
                   state_changed, state_file, owed, tvars, shutdown_event,
                   running, cleanups, main, orphans>>

\* the body of MemoryMonitor._monitor's loop: above the critical threshold
\* handle_critical_memory releases the player's handles and its cache
MemoryTurn ==
    /\ loop["memory"] = "turn"
    /\ main # "exited"
    /\ \E critical \in BOOLEAN :
        Commit(IF critical THEN clear_cache(cleanup_all(S)) ELSE S)
    /\ loop' = [loop EXCEPT !["memory"] = "sleep"]
    /\ UNCHANGED <<phase, th, calls, seen, picks, ended, clients,
                   state_changed, state_file, owed, tvars, shutdown_event,
                   running, cleanups, main, orphans>>

\* the body of heartbeat_task's loop, up to its "await asyncio.sleep(15)"
HeartbeatTurn ==
    /\ loop["heartbeat"] = "turn"
    /\ main = "serving"
    /\ loop' = [loop EXCEPT !["heartbeat"] = "sleep"]
    /\ UNCHANGED <<pvars, phase, th, calls, seen, picks, ended, clients,
                   state_changed, state_file, owed, tvars, shutdown_event,
                   running, cleanups, main, orphans>>

\* the steps the background loops take by themselves
LoopStep ==
    LoopChecks \/ WatcherTurn \/ WatchdogTurn \/ MemoryTurn \/ HeartbeatTurn

\* the server with its background loops, until the process has exited
NextExit ==
    \/ FreshStart
    \/ TrackEnds
    \/ Signal
    \/ ServerShutdown
    \/ AtExit
    \/ LoopChecks
    \/ WatcherTurn
    \/ WatchdogTurn
    \/ MemoryTurn
    \/ HeartbeatTurn

\* every thread that can run does run, and asyncio.run() tears the event
\* loop down once the signal handler has ended it
SpecExit ==
    Init /\ [][NextExit]_vars /\ WF_vars(LoopStep) /\ WF_vars(ServerShutdown)

\* ------------------------------------------- load_track running in steps
\* load_track takes _preload_lock inside _use_preloaded_track and
\* _cleanup_resources only: between them, and between its open(), its
\* mmap() and its music.load(), another thread may run.  A slot that is
\* assigned while it holds an open handle loses that handle: nothing
\* references it any more and close() was never called on it.
Lost(slot) == IF slot # None THEN 1 ELSE 0

\* load_track from its first statement up to open(): the preloaded track is
\* not used, the current handles are closed, the output is stopped and the
\* cache is updated
load_prefix(s, index) ==
    LET s1 == cleanup_current(s)
        s2 == IF get_busy(s1) THEN mixer_stop(s1) ELSE s1
        s3 == manage_cache(s2)
    IN  IF ~PyValid(s3.track_list, index) THEN Raise(s3, "IndexError")
        ELSE cache_touch(s3, PyGet(s3.track_list, index))

\* load_track's inner "except": the handles are cleaned up and the track is
\* loaded by its path; when that fails too the outer "except" logs the error
fallback_load(s, t) ==
    LET s1 == cleanup_current(s) IN
    IF t \in s.disk
    THEN preload_next_track([s1 EXCEPT !.music = Some(t), !.mixer = "stopped"])
    ELSE s1

\* the track actor a is loading
Loading(a) == PyGet(track_list, th[a].index)

\* load_track(index), up to open()
LoadEnter(a) ==
    /\ th[a].pc = "load"
    /\ IF preloaded_hit(S)
       THEN /\ Commit(load_track(S, th[a].index))
            /\ th' = [th EXCEPT ![a].pc =
                         IF load_track(S, th[a].index).exc = "none"
                         THEN "start" ELSE "idle"]
       ELSE IF load_prefix(S, th[a].index).exc # "none"
       THEN /\ Commit(load_track_except(load_prefix(S, th[a].index),
                                        th[a].index))
            /\ th' = [th EXCEPT ![a].pc = "idle"]
       ELSE /\ Commit(load_prefix(S, th[a].index))
            /\ th' = [th EXCEPT ![a].pc = "open"]
    /\ UNCHANGED <<phase, calls, seen, hvars>>

\* self._current_file = open(current_path, 'rb')
LoadOpen(a) ==
    /\ th[a].pc = "open"
    /\ IF Loading(a) \in disk
       THEN /\ Commit([S EXCEPT !.current_file = Some(Loading(a))])
            /\ orphans' = orphans + Lost(current_file)
            /\ th' = [th EXCEPT ![a].pc = "mmap"]
       ELSE /\ Commit(fallback_load(S, Loading(a)))
            /\ orphans' = orphans
            /\ th' = [th EXCEPT ![a].pc = "start"]
    /\ UNCHANGED <<phase, calls, seen, picks, ended, clients, state_changed,
                   state_file, owed, tvars, shutdown_event, running,
                   cleanups, main, loop>>

\* self._current_mmap = mmap.mmap(self._current_file.fileno(), ...): the map
\* is one of the file that is in the slot now
LoadMmap(a) ==
    /\ th[a].pc = "mmap"
    /\ IF current_file = None
       THEN /\ Commit(fallback_load(S, Loading(a)))
            /\ orphans' = orphans
            /\ th' = [th EXCEPT ![a].pc = "start"]
       ELSE /\ Commit([S EXCEPT !.current_mmap = Some(current_file[1])])
            /\ orphans' = orphans + Lost(current_mmap)
            /\ th' = [th EXCEPT ![a].pc = "mload"]
    /\ UNCHANGED <<phase, calls, seen, picks, ended, clients, state_changed,
                   state_file, owed, tvars, shutdown_event, running,
                   cleanups, main, loop>>

\* pygame.mixer.music.load(self._current_mmap), then _preload_next_track()
LoadMusic(a) ==
    /\ th[a].pc = "mload"
    /\ IF current_mmap = None
       THEN Commit(fallback_load(S, Loading(a)))
       ELSE Commit(preload_next_track([S EXCEPT !.music = Some(current_mmap[1]),
                                                !.mixer = "stopped"]))
    /\ th' = [th EXCEPT ![a].pc = "start"]
    /\ UNCHANGED <<phase, calls, seen, hvars>>

\* a WebSocket "next" command and the watcher's next() at the end of a track,
\* each running load_track in steps, and the preload threads
NextLoading ==
    \/ FreshStart
    \/ TrackEnds
    \/ FileVanishes
    \/ WatcherObserve
    \/ PreloadThread
    \/ NextBegin("ws")
    \/ NextBegin("watcher")
    \/ \E a \in {"ws", "watcher"} : LoadEnter(a)
    \/ \E a \in {"ws", "watcher"} : LoadOpen(a)
    \/ \E a \in {"ws", "watcher"} : LoadMmap(a)
    \/ \E a \in {"ws", "watcher"} : LoadMusic(a)
    \/ \E a \in {"ws", "watcher"} : NextStart(a)

SpecLoading == Init /\ [][NextLoading]_vars

\* ================================================================== claims
Running == phase = "running"
InRange(s) == 0 <= s.current_index /\ s.current_index < Len(s.track_list)
\* the track the player's current_index designates
CurrentTrack(s) == PyGet(s.track_list, s.current_index)
\* indices a client may send, valid or not
ProbeIndices == (0 - NumTracks - 1)..(NumTracks + 1)

\* C1: in every state of the running server, a non-empty catalog has
\* 0 <= current_index < len(track_list), and an empty catalog has
\* current_index = 0 and paused = true.
C1_IndexInRange ==
    Running =>
        IF Len(track_list) > 0 THEN InRange(S)
        ELSE current_index = 0 /\ paused

\* C2: whenever no call is in progress and the player is not paused, the
\* music loaded in the mixer is track_list[current_index]; and the same holds
\* right after next(), back() and play_track(i) return, whether load_track
\* read the track from disk or took it from the preload slots.
C2_LoadedIsCurrent ==
    Running =>
        /\ (AllIdle /\ ~paused /\ PyValid(track_list, current_index))
               => music = Some(CurrentTrack(S))
        /\ \A pick \in next_candidates(S) :
               LET r == next(S, pick) IN
               r.exc = "none" => r.music = Some(CurrentTrack(r))
        /\ Len(track_list) > 0 =>
               LET r == back(S) IN
               r.exc = "none" => r.music = Some(CurrentTrack(r))
        /\ \A i \in Indices(S) :
               LET r == play_track(S, i) IN
               r.exc = "none" => r.music = Some(CurrentTrack(r))

\* C3: with shuffle off, next() called by the watcher and by a WebSocket
\* command advances current_index by no more than the number of calls, and
\* once the calls have returned the mixer holds track_list[current_index].
C3_ConcurrentNext ==
    (Running /\ ~shuffle_on /\ Len(track_list) = NumTracks) =>
        /\ calls < NumTracks => current_index <= calls
        /\ (calls = MaxNextCalls /\ Mutators = {})
               => music = Some(CurrentTrack(S))

\* C4: state-mutating calls are strictly serialized: at most one actor is
\* inside one at any time.
C4_Serialized == Cardinality(Mutators) <= 1

\* C5: every snapshot current_state() returns shows values of current_index,
\* paused and shuffle that held together at an instant at which no mutating
\* call was in progress.
C5_SnapshotConsistent ==
    \A a \in Actors : th[a].snap # None => th[a].snap[1] \in seen

\* load_track(i) has to read track i from disk and its file is not there
LoadFails(s, i) ==
    /\ PyValid(s.track_list, i)
    /\ PyGet(s.track_list, i) \notin s.disk
    /\ ~preloaded_hit([s EXCEPT !.current_index = i])
\* the call raised and left current_index and paused as they are now
Unadvanced(r) ==
    r.exc # "none" /\ r.current_index = current_index /\ r.paused = paused

\* C6: when the track's file cannot be loaded during next(), back(),
\* play_track(i) or play(), the call raises and leaves current_index and
\* paused as they were.
C6_LoadFailureRaised ==
    Running =>
        /\ \A pick \in next_candidates(S) :
               LoadFails(S, pick) => Unadvanced(next(S, pick))
        /\ (Len(track_list) > 0
              /\ LoadFails(S, (current_index - 1) % Len(track_list)))
               => Unadvanced(back(S))
        /\ \A i \in Indices(S) : LoadFails(S, i) => Unadvanced(play_track(S, i))
        /\ (~paused /\ LoadFails(S, current_index)) => Unadvanced(play(S))

\* C7: play_track(i) with i outside 0..len(track_list)-1 raises IndexError
\* and changes neither current_index, paused, the play history nor the
\* music loaded and playing in the mixer.
C7_PlayTrackRejected ==
    Running =>
        \A i \in ProbeIndices :
            (i < 0 \/ i >= Len(track_list)) =>
                LET r == play_track(S, i) IN
                /\ r.exc = "IndexError"
                /\ r.current_index = current_index
                /\ r.paused = paused
                /\ r.last_played = last_played
                /\ r.music = music
                /\ r.mixer = mixer

\* C8: deleting the current track of a catalog of two or more leaves
\* current_index on the track that followed it (the first track when it was
\* last), and that track is loaded and started in the mixer.
C8_DeleteCurrent ==
    (Running /\ Len(track_list) >= 2 /\ InRange(S)
       /\ CurrentTrack(S) \in disk) =>
        LET i == current_index
            follower == IF i = Len(track_list) - 1 THEN track_list[1]
                        ELSE track_list[i + 2]
            r == delete_track(S, i, TRUE)
        IN  /\ r.exc = "none"
            /\ InRange(r)
            /\ CurrentTrack(r) = follower
            /\ r.music = Some(follower)
            /\ r.mixer = "playing"

\* C9: deleting a track below the current one decrements current_index by
\* one, so it designates the same track, and leaves paused and the mixer as
\* they were.
C9_DeleteBelowCurrent ==
    (Running /\ InRange(S)) =>
        \A i \in 0..(current_index - 1) :
            track_list[i + 1] \in disk =>
                LET r == delete_track(S, i, TRUE) IN
                /\ r.exc = "none"
                /\ r.current_index = current_index - 1
                /\ CurrentTrack(r) = CurrentTrack(S)
                /\ r.paused = paused
                /\ r.music = music
                /\ r.mixer = mixer

\* C10: deleting the last remaining track raises nothing and leaves the
\* catalog empty, current_index = 0, paused = true and the mixer stopped.
C10_DeleteLast ==
    (Running /\ Len(track_list) = 1 /\ track_list[1] \in disk) =>
        LET r == delete_track(S, 0, TRUE) IN
        /\ r.exc = "none"
        /\ Len(r.track_list) = 0
        /\ r.current_index = 0
        /\ r.paused
        /\ r.mixer = "stopped"

\* C11: whenever delete_track(i) fails (invalid index, file missing on disk,
\* removal refused by the filesystem) the catalog is exactly what it was
\* before the call.
C11_FailedDeleteKeepsCatalog ==
    Running =>
        \A i \in ProbeIndices, rm_ok \in BOOLEAN :
            LET r == delete_track(S, i, rm_ok) IN
            r.exc # "none" => r.track_list = track_list

\* a state in which delete_track fails in each of the three ways, one of
\* them after it has moved current_index off the track being deleted
C11_Witness ==
    /\ Running
    /\ delete_track(S, Len(track_list), TRUE).exc = "IndexError"
    /\ \E i \in Indices(S) :
           delete_track(S, i, TRUE).exc = "FileNotFoundError"
    /\ \E i \in Indices(S) :
           LET r == delete_track(S, i, FALSE) IN
           /\ r.exc = "PermissionError"
           /\ r.current_index # current_index
           /\ r.track_list = track_list

\* C12: with shuffle on and six or more tracks, next() never chooses an index
\* that one of the four next() calls before it chose (no index twice within
\* five consecutive calls), unless every index was chosen by those calls.
C12_ShuffleNoRepeat ==
    (Running /\ shuffle_on /\ Len(track_list) >= ShuffleTracks) =>
        \A pick \in next_candidates(S) :
            pick \in Range(picks) => Indices(S) \subseteq Range(picks)

\* next() called k times in a row with shuffle off; a call that raises ends
\* the sequence
RECURSIVE NextTimes(_, _)
NextTimes(s, k) ==
    IF k = 0 \/ s.exc # "none" \/ next_candidates(s) = {} THEN s
    ELSE NextTimes(next(s, CHOOSE p \in next_candidates(s) : TRUE), k - 1)

\* C13: with shuffle off, next() sets current_index to (current_index + 1)
\* mod len(track_list); next() called len(track_list) times returns to the
\* index it started from; and from index 0 of three tracks two calls give
\* index 2 and a third gives index 0.
C13_SequentialNext ==
    (Running /\ ~shuffle_on /\ Len(track_list) > 0) =>
        LET n == Len(track_list) IN
        /\ next_candidates(S) = {(current_index + 1) % n}
        /\ NextTimes(S, 1).exc = "none"
        /\ NextTimes(S, 1).current_index = (current_index + 1) % n
        /\ NextTimes(S, n).current_index = current_index
        /\ (current_index = 0 /\ n = 3) =>
               /\ NextTimes(S, 2).current_index = 2
               /\ NextTimes(S, 3).current_index = 0

\* C14: for every valid index i, play_track(i) returns normally and the
\* current_state() that follows shows current_index = i and paused = false.
C14_PlayTrackThenState ==
    Running =>
        \A i \in Indices(S) :
            LET r == play_track(S, i) IN
            /\ r.exc = "none"
            /\ current_state(r).current_index = i
            /\ current_state(r).paused = FALSE

\* a paused player on some track, from which play_track jumps to another one
C14_Witness ==
    /\ Running
    /\ paused
    /\ \E i \in Indices(S) :
           /\ i # current_index
           /\ current_state(play_track(S, i)).current_index = i
           /\ ~current_state(play_track(S, i)).paused

\* C15: play() returns normally with paused = false and current_index
\* unchanged; when the player was paused and the output is busy after the
\* resume, the track is resumed without a reload; otherwise
\* track_list[current_index] is loaded and started.
C15_Play ==
    Running =>
        LET r == play(S)
            resumes == paused /\ mixer = "paused"
        IN  /\ r.exc = "none"
            /\ ~r.paused
            /\ r.current_index = current_index
            /\ r.mixer = "playing"
            /\ resumes =>
                   /\ r.music = music
                   /\ r.current_file = current_file
                   /\ r.current_mmap = current_mmap
                   /\ r.cache = cache
            /\ ~resumes =>
                   /\ PyValid(track_list, current_index)
                   /\ r.music = Some(CurrentTrack(S))

\* what a call leaves alone when it does not touch the track being played
SamePlayback(r) ==
    /\ r.track_list = track_list
    /\ r.current_index = current_index
    /\ r.music = music
    /\ r.current_file = current_file
    /\ r.current_mmap = current_mmap
    /\ r.cache = cache

C17_ToggleShuffleFrame ==
    Running =>
        LET r == toggle_shuffle(S) IN
        /\ r.exc = "none"
        /\ r.shuffle_on = ~shuffle_on
        /\ r.paused = paused
        /\ r.mixer = mixer
        /\ SamePlayback(r)
        /\ \A i \in preload_candidates(r) :
               LET q == do_preload_next_track(r, i) IN
               /\ q.shuffle_on = ~shuffle_on
               /\ q.paused = paused
               /\ q.mixer = mixer
               /\ SamePlayback(q)

\* shuffle is on while a track plays, and toggle_shuffle() turns it off
C17_Witness ==
    /\ Running
    /\ shuffle_on
    /\ mixer = "playing"
    /\ current_index > 0
    /\ ~toggle_shuffle(S).shuffle_on
    /\ toggle_shuffle(S).preload_threads > 0

\* set_volume leaves current_index, paused and shuffle as they were
VolumeFrame(r) ==
    /\ r.exc = "none"
    /\ r.current_index = current_index
    /\ r.paused = paused
    /\ r.shuffle_on = shuffle_on

\* C18 as stated: for a volume v in [0,1], set_volume(v) followed by
\* get_volume() returns v, the next current_state() carries v, and
\* current_index, paused and shuffle are unchanged.
C18_VolumeRoundTrip ==
    Running =>
        \A v \in VolumeInputs :
            LET r == set_volume(S, v) IN
            /\ get_volume(r) * 100 = v * MixMaxVolume
            /\ current_state(r).volume * 100 = v * MixMaxVolume
            /\ VolumeFrame(r)

\* C18: for a volume v in [0,1], set_volume(v) followed by get_volume()
\* returns v rounded down to a multiple of 1/128 (v itself when v is such a
\* multiple), the next current_state() carries that value, and
\* current_index, paused and shuffle are unchanged.
C18_VolumeQuantised ==
    Running =>
        \A v \in VolumeInputs :
            LET r == set_volume(S, v)
                g == get_volume(r)
            IN  /\ g * 100 <= v * MixMaxVolume
                /\ v * MixMaxVolume < (g + 1) * 100
                /\ current_state(r).volume = g
                /\ VolumeFrame(r)

\* the volume 0.3 has been set: get_volume() is 38/128, below 0.3 and
\* within 1/128 of it
C18_Witness ==
    /\ Running
    /\ get_volume(S) = get_volume(set_volume(S, 30))
    /\ current_state(S).volume * 100 < 30 * MixMaxVolume
    /\ (current_state(S).volume + 1) * 100 > 30 * MixMaxVolume

\* C19: the watcher calls next() only for a track that played to its end
\* (once per end), after it saw a position > 0, and never while the player
\* is paused.
C19_WatcherAdvancesOnEnd ==
    th["watcher"].pc = "next" =>
        /\ th["watcher"].last_pos > 0
        /\ ~paused
        /\ ended

\* C20: after the watcher has advanced the track, the snapshot is saved and
\* every client connected at that time is eventually sent it.
C20_AdvanceReachesClients ==
    \A c \in Clients : (c \in owed) ~> (c \notin owed)

\* C21: an error raised while the watcher handles an end of track (next()
\* failing, an out-of-range current_index, an empty catalog, a failing save
\* or broadcast) does not end the watcher's loop: the thread keeps polling.
C21_WatcherKeepsPolling ==
    Running => th["watcher"].pc \in {"idle", "next", "report"}

\* some track of the catalog has its file in the folder
Playable == \E k \in 1..Len(track_list) : track_list[k] \in disk

\* C22: after a next() of the watcher that could not load the track it chose,
\* playback does not stay silent: while the player is not paused and some
\* catalog track is playable, a silent output becomes busy again.
C22_SilenceEnds ==
    (Running /\ th["watcher"].missed /\ mixer # "playing")
        ~> (mixer = "playing" \/ paused \/ ~Playable)

\* C23: the watcher's idle cleanup fires only when there has been neither
\* playback nor a WebSocket message for the idle window and the output is
\* not busy or the player is paused; and it fires again only more than one
\* idle window after it fired, not on the following turns.
C23_IdleFiresOncePerWindow ==
    [][last_fire' # last_fire =>
          /\ now' - last_busy > idle_timeout
          /\ now' - last_websocket_activity > idle_timeout
          /\ (mixer # "playing" \/ paused)
          /\ last_fire # None => now' - last_fire[1] > idle_timeout]_vars

\* the cleanup fired a second time, on a player left alone since the start
C23_Witness ==
    /\ last_fire # None
    /\ last_fire[1] > 2 * idle_timeout
    /\ last_fire[1] = th["watcher"].last_local_activity
    /\ last_websocket_activity = 0
    /\ last_busy = 0

\* the command of the turn h returned normally: nothing was raised and no
\* error message was sent
Succeeded(h) ==
    /\ h.exc = "none"
    /\ \A k \in 1..Len(h.out) :
           h.out[k].message \in {None, Some("Song deleted.")}

\* the turn h ends with the snapshot saved and then sent to client c
SavedThenSent(h, c) ==
    /\ Len(h.out) >= 2
    /\ h.out[Len(h.out) - 1] = SaveState(current_state(h.s))
    /\ h.out[Len(h.out)] = Send(c, Some(current_state(h.s)), None, None)

\* C24: every successful state-mutating WebSocket command (play, pause, next,
\* back, toggle-shuffle, play:<index>, volume:<float>, delete:<index>) calls
\* the persist-state callback with the snapshot taken after the command and
\* then sends that snapshot to the client that sent the command.
C24_SaveThenSend ==
    Running =>
        \A c \in clients, msg \in GoodMessages, pick \in NextPicks(S) :
            LET h == ws_message(S, state_changed, c, msg, TRUE, pick) IN
            Succeeded(h) => SavedThenSent(h, c)

\* play:<non-integer>, volume:<non-number> and unrecognized commands
MalformedMessages ==
    {Msg("play", TRUE, a) : a \in {<<"x">>, <<>>, <<"1", ".", "5">>}}
        \cup {Msg("volume", TRUE, a) : a \in {<<"x">>, <<>>}}
        \cup UnknownMessages

ErrorTexts ==
    {"Invalid play command format", "Invalid volume command format",
     "Unknown command"}

\* C25: a malformed command (play:<non-integer>, volume:<non-number>) or an
\* unrecognized one changes nothing in the player, calls no persist, and is
\* answered by one error message, sent to the client it came from; nothing
\* is sent to another client.
C25_MalformedRejected ==
    Running =>
        \A c \in clients, msg \in MalformedMessages, pick \in NextPicks(S) :
            LET h == ws_message(S, state_changed, c, msg, TRUE, pick) IN
            /\ h.s = S
            /\ h.exc = "none"
            /\ Saves(h.out) = <<>>
            /\ Len(h.out) = 1
            /\ h.out[1].kind = "send" /\ h.out[1].to = c
            /\ h.out[1].state = None
            /\ \E text \in ErrorTexts : h.out[1].message = Some(text)
            /\ \A k \in 1..Len(h.pushed) : h.pushed[k].to = c

\* two clients are connected to a paused player on its second track, and
\* "play:x" of the first one is answered with the error message
C25_Witness ==
    /\ Running
    /\ clients = Clients
    /\ paused
    /\ current_index = 1
    /\ ws_message(S, state_changed, "c1", Msg("play", TRUE, <<"x">>), TRUE, 0).out
           = <<Send("c1", None, None, Some("Invalid play command format"))>>

\* C26: a successful delete:<i> on a catalog of n tracks is answered, to the
\* client that sent it, by one message with the state, a songs array of
\* length n-1 and the text "Song deleted."; the initial payload and the
\* snapshots that follow are those of a catalog of n-1 tracks; a failing
\* delete:<i> is answered by the text "Error deleting song" alone, without
\* a state.
C26_DeleteAnswer ==
    Running =>
        \A c \in clients, a \in DeleteArgs, rm_ok \in BOOLEAN :
            LET n == Len(track_list)
                r == delete_command(S, ParseInt(a), rm_ok)
                h == ws_message(S, state_changed, c, Msg("delete", TRUE, a),
                                rm_ok, 0)
            IN  /\ Len(h.out) = 1
                /\ h.out[1].kind = "send" /\ h.out[1].to = c
                /\ IF r.exc = "none"
                   THEN /\ h.out[1].message = Some("Song deleted.")
                        /\ h.out[1].songs # None
                        /\ Len(h.out[1].songs[1]) = n - 1
                        /\ h.out[1].state = Some(current_state(h.s))
                        /\ Len(init_payload(h.s, c).songs[1]) = n - 1
                        /\ current_state(h.s).current_index < Max(n - 1, 1)
                   ELSE /\ h.out[1].message = Some("Error deleting song")
                        /\ h.out[1].state = None
                        /\ h.out[1].songs = None

\* "delete:1" on three tracks with current_index = 1 is answered with two
\* songs, and "delete:3" with the error text
C26_Witness ==
    /\ Running
    /\ "c1" \in clients
    /\ Len(track_list) = 3
    /\ current_index = 1
    /\ LET h == ws_message(S, state_changed, "c1",
                           Msg("delete", TRUE, <<"1">>), TRUE, 0)
       IN  /\ Len(h.out[1].songs[1]) = 2
           /\ h.out[1].message = Some("Song deleted.")
    /\ LET h == ws_message(S, state_changed, "c1",
                           Msg("delete", TRUE, <<"3">>), TRUE, 0)
       IN  h.out[1].message = Some("Error deleting song")

\* C27: an error raised by the player operation of a WebSocket command (play,
\* pause, next, back and toggle-shuffle included) is caught by the handler
\* and answered with a message to the client that sent the command.
C27_ErrorsAnswered ==
    Running =>
        \A c \in clients, msg \in Messages, rm_ok \in BOOLEAN,
           pick \in NextPicks(S) :
            LET h == ws_message(S, state_changed, c, msg, rm_ok, pick) IN
            h.exc # "none" =>
                \E k \in 1..Len(h.out) :
                    /\ h.out[k].kind = "send"
                    /\ h.out[k].to = c
                    /\ h.out[k].message # None

\* C28: when the watcher broadcasts the state, a send that fails for some
\* clients removes those clients from the set of connected clients, and
\* every other connected client is delivered the broadcast.
C28_BroadcastBestEffort ==
    th["watcher"].pc = "report" =>
        \A failing \in SUBSET clients :
            LET b == broadcast_state_change(clients, current_state(S), FALSE)
                delivered == {c \in b.tasks :
                                 send_state_update(clients, c, c \notin failing)
                                     .delivered}
            IN  /\ \A c \in failing :
                       c \notin send_state_update(clients, c, FALSE).clients
                /\ clients \ failing \subseteq delivered

\* the player of a new process started on the same folder with the given
\* state file
Restarted(file) == restore(Constructed(disk), load_state(file))

\* C29: saving a snapshot and restarting is a round trip: the restarted
\* player has the saved current_index, shuffle, volume and paused; without a
\* state file it starts at index 0 with volume 0.5, unpaused.
C29_RestoreRoundTrip ==
    Running =>
        LET st == current_state(S)
            r == Restarted(save_state(st))
            fresh == Restarted(None)
        IN  /\ r.exc = "none"
            /\ r.current_index = st.current_index
            /\ r.shuffle_on = st.shuffle
            /\ get_volume(r) = st.volume
            /\ r.paused = st.paused
            /\ fresh.exc = "none"
            /\ fresh.current_index = 0
            /\ get_volume(fresh) = DefaultVolume
            /\ ~fresh.paused

\* the player holds no open file handle or memory map and the output is
\* stopped
Released(s) ==
    /\ s.current_file = None /\ s.current_mmap = None
    /\ s.next_file = None /\ s.next_mmap = None
    /\ s.mixer = "stopped"

\* C30: cleanup() never raises and a second call changes nothing more; when
\* it returns the output is stopped and the player holds no file handle or
\* memory map, current or preloaded; and this remains so until the process
\* exits, even if a preload thread was pending when cleanup() ran.
C30_CleanupReleases ==
    /\ Running =>
           /\ cleanup(S).exc = "none"
           /\ cleanup(cleanup(S)) = cleanup(S)
           /\ Released(cleanup(S))
    /\ phase = "shutdown" => Released(S)

\* C31: on termination by a signal, cleanup() is called exactly once before
\* the process exits, the signal handler, the atexit hooks and the end of
\* start_servers counted together.
C31_CleanupOnce ==
    /\ cleanups <= 1
    /\ main = "exited" => cleanups = 1

\* C32: once shutdown_event is set no background loop (watcher, heartbeat,
\* watchdog, memory monitor) begins another turn: the turn in progress is the
\* last one; and eventually none of the loops is running.
C32_LoopsObserveShutdown ==
    /\ [][shutdown_event =>
            \A l \in Loops : loop[l] = "sleep" => loop'[l] # "turn"]_vars
    /\ shutdown_event ~> (\A l \in Loops : loop[l] = "exited")

\* the signal came after the watcher had advanced the track, and the
\* watcher, the watchdog and the memory monitor have left their loops while
\* the process is still there
C32_Witness ==
    /\ shutdown_event
    /\ main \in {"unwinding", "atexit"}
    /\ \A l \in Loops \ {"heartbeat"} : loop[l] = "exited"
    /\ current_index > 0

\* C33: after every next() that returns normally, the new current_index is
\* the last element of the play history.
C33_HistoryEndsWithCurrent ==
    Running =>
        \A pick \in next_candidates(S) :
            LET r == next(S, pick) IN
            r.exc = "none" =>
                /\ r.last_played # <<>>
                /\ r.last_played[Len(r.last_played)] = r.current_index

\* C34: the recent-path cache never holds more than max_cache_size entries.
C34_CacheBounded == Len(cache) <= max_cache_size

\* C38: when delete_track(i) fails while removing the file, the whole player
\* state is as before the call: the catalog, current_index, paused, the play
\* history and the track loaded and playing in the output, also when i is
\* the current track.
C38_FailedRemoveKeepsState ==
    Running =>
        \A i \in Indices(S) :
            LET r == delete_track(S, i, FALSE) IN
            r.exc = "PermissionError" =>
                /\ r.track_list = track_list
                /\ r.current_index = current_index
                /\ r.paused = paused
                /\ r.last_played = last_played
                /\ r.music = music
                /\ r.mixer = mixer

\* the operations a client may invoke on an empty catalog
EmptyCommands == {"next", "back", "play"}

\* C39: on an empty catalog next(), back() and play() raise nothing and
\* leave the catalog empty, current_index = 0 and paused = true.
C39_EmptyStaysEmpty ==
    (Running /\ Len(track_list) = 0) =>
        \A command \in EmptyCommands :
            LET r == command_map(S, command, 0) IN
            /\ r.exc = "none"
            /\ Len(r.track_list) = 0
            /\ r.current_index = 0
            /\ r.paused

\* the turn h of the message loop sends client c a state
SentState(h, c) ==
    \E k \in 1..Len(h.pushed \o h.out) :
        /\ (h.pushed \o h.out)[k].kind = "send"
        /\ (h.pushed \o h.out)[k].to = c
        /\ (h.pushed \o h.out)[k].state # None

\* the turn that follows the turn h: a message of client c
TurnAfter(h, c, msg, pick) ==
    ws_message(h.s, h.state_changed, c, msg, TRUE, pick)

\* C35: after broadcast_state_change has recorded a state change, each
\* connected client is sent a state the next time it sends a message: the
\* first client to send one, and every other client that was connected at
\* the change after it.
C35_EveryClientCatchesUp ==
    (Running /\ state_changed) =>
        \A c1 \in clients, msg1 \in Messages, pick \in NextPicks(S) :
            /\ SentState(ws_message(S, state_changed, c1, msg1, TRUE, pick), c1)
            /\ \A c2 \in owed \ {c1}, msg2 \in Messages :
                   SentState(TurnAfter(ws_message(S, state_changed, c1, msg1,
                                                  TRUE, pick),
                                       c2, msg2, 0), c2)

\* C36: every file handle and memory map that load_track or the preload
\* thread opened is referenced by one of the player's slots or has been
\* closed: no slot loses an open handle, also when two actors run load_track
\* at the same time.
C36_NoOrphanHandle == orphans = 0

\* C37: a command of a user (pause, play, next, back, play_track,
\* delete_track) or a reload never makes the watcher call next(): whenever
\* the watcher is about to call it, the track in the output has played to
\* its end.
C37_CommandsNeverAdvance ==
    th["watcher"].pc = "next" => ended

\* C40: the preload slots are all set or all unset whenever the preload
\* lock is free: _next_index is set exactly when _next_file and _next_mmap
\* both are, whatever the interleaving of the preload thread,
\* _use_preloaded_track, _cleanup_resources and a failed preload.
C40_PreloadAllOrNothing ==
    /\ (next_index # None) <=> (next_file # None /\ next_mmap # None)
    /\ (next_file # None) <=> (next_mmap # None)

\* a track is preloaded while two threads are inside load_track, one before
\* its open() and one before its mmap()
C40_Witness ==
    /\ Running
    /\ next_index # None /\ next_file # None /\ next_mmap # None
    /\ th["ws"].pc = "mmap"
    /\ th["watcher"].pc = "open"
====
